---- MODULE Spec2Model ----
(***************************************************************************)
(* Model of flac-splitter: the CUE sheet parser (internal/cueparser), the  *)
(* in-process splitting loop with its timecode arithmetic, and Split with  *)
(* its three modes and the delegated strategies (internal/flacsplitter).   *)
(*                                                                         *)
(* Strings that the code treats as opaque text are TLA+ strings.  A        *)
(* timecode string "MM:SS:FF" is the tuple <<MM, SS, FF>> of the three     *)
(* decimal segments; the empty Index of a track without an index line is   *)
(* the empty tuple.   The decimal string produced by "%.3f" is the integer *)
(* number of thousandths it denotes.                                       *)
(***************************************************************************)
EXTENDS Integers, Sequences, FiniteSets, TLC

\* ------------------------------------------------------------------------
\* Bounds of the model
\* ------------------------------------------------------------------------
MaxTracks == 3
MaxIOFaults == 1
\* lines of a sheet drawn from all of SheetLines, from TextLines, from
\* CoreLines
MaxLines == 2
MaxTextLines == 3
MaxCoreLines == 5
\* tracks of the albums split under a chosen mode
MaxModeTracks == 2
\* CUE files found by one batch run
MaxAlbums == 2
\* whole blocks in the samples of one encoded track
MaxBlocks == 3

\* seconds and frame components (1/75 s) the bounded albums draw their
\* indices from
SecondChoices == {0, 1}
FrameChoices == {0, 12, 74}
\* lengths of the bounded sources, in seconds
SourceSeconds == {1, 2}
\* sample rates of the bounded sources
SampleRates == {25, 44100}

\* ------------------------------------------------------------------------
\* Data model (internal/cueparser/parser.go)
\* ------------------------------------------------------------------------
NoCustomFields == <<>>

\* the empty string in a timecode field
NoTimecode == <<>>

\* a date string is the tuple of its first four characters and the rest
Date4(year) == <<year>>
DateFull(year, rest) == <<year, rest>>
NoDate == <<>>

NewTrack(n) ==
    [Number |-> n, Title |-> "", Performer |-> "", Composer |-> "",
     Songwriter |-> "", ISRC |-> "", Index |-> NoTimecode, PreGap |-> NoTimecode,
     CustomFields |-> NoCustomFields]

NewCueFile ==
    [AudioFile |-> "", AudioFileType |-> "",
     Album |-> "", Performer |-> "", Composer |-> "", Songwriter |-> "",
     Date |-> NoDate, Year |-> NoDate, Genre |-> "", Comment |-> "",
     Catalog |-> "", DiscID |-> "", DiscNumber |-> "", TotalDiscs |-> "",
     Tracks |-> <<>>, CustomFields |-> NoCustomFields]

\* ------------------------------------------------------------------------
\* Timecode arithmetic (splitter.go, splitter_audio.go)
\* ------------------------------------------------------------------------
RECURSIVE Pow2(_)
Pow2(n) == IF n = 0 THEN 1 ELSE 2 * Pow2(n - 1)

RECURSIVE Pow2Mod1000(_)
Pow2Mod1000(n) == IF n = 0 THEN 1 ELSE (2 * Pow2Mod1000(n - 1)) % 1000

RECURSIVE FloorLog2(_)
FloorLog2(n) == IF n < 2 THEN 0 ELSE 1 + FloorLog2(n \div 2)

IsPow2(n) == n = Pow2(FloorLog2(n))

RECURSIVE ShiftToUnit(_)
\* least j with ms * 2^j >= 1000, for 0 < ms
ShiftToUnit(ms) == IF ms >= 1000 THEN 0 ELSE 1 + ShiftToUnit(2 * ms)

\* binary exponent of the double nearest to ms/1000, ms > 0
BinaryExponent(ms) ==
    IF ms >= 1000 THEN FloorLog2(ms \div 1000) ELSE 0 - ShiftToUnit(ms)

\* strings.Split(cueTime, ":") has three parts
IsTimecode(cueTime) == Len(cueTime) = 3

\* a conversion that reads a two-segment string as MM:SS
convertCueTimeToSecondsReadsTwo(cueTime) ==
    IF Len(cueTime) = 2 THEN (cueTime[1] * 60 + cueTime[2]) * 1000
    ELSE IF ~IsTimecode(cueTime) THEN 0
    ELSE (cueTime[1] * 60 + cueTime[2]) * 1000
         + (80 * cueTime[3] + 3) \div 6

\* convertCueTimeToSeconds: the "%.3f" rendering of
\* minutes*60 + seconds + frames/75.0, in thousandths.  frames/75 is never
\* half-way between two thousandths, so the rendering is the nearest
\* thousandth of the exact value.
convertCueTimeToSeconds(cueTime) ==
    IF ~IsTimecode(cueTime) THEN 0
    ELSE (cueTime[1] * 60 + cueTime[2]) * 1000
         + (80 * cueTime[3] + 3) \div 6

\* parseFloat: the IEEE-754 double nearest to the decimal string.  The
\* double is determined by the thousandths; Mantissa error of that double,
\* in units of 1/(1000 * 2^(52 - exponent)): the double is below the decimal
\* by ParseRemainder when ParseRemainder < 500 and above it otherwise.
ParseRemainder(ms) ==
    ((ms % 1000) * Pow2Mod1000(52 - BinaryExponent(ms))) % 1000

\* uint64(seconds * float64(sampleRate)) for seconds = parseFloat(ms/1000):
\* the double product rounded to nearest, then truncated.  When the exact
\* product is not an integer it lies at least 1/1000 from one and truncation
\* gives its floor; when it is an integer n the rounded product is below n
\* exactly if the parse error times the rate exceeds half the spacing of
\* doubles just below n.
TruncatedProduct(ms, sampleRate) ==
    LET whole == (ms \div 1000) * sampleRate
        part == (ms % 1000) * sampleRate
        n == whole + part \div 1000
        rem == ParseRemainder(ms)
        en == IF IsPow2(n) THEN FloorLog2(n) - 1 ELSE FloorLog2(n)
    IN  IF ms = 0 THEN 0
        ELSE IF part % 1000 # 0 THEN n
        ELSE IF rem > 0 /\ rem < 500
                /\ 2 * rem * sampleRate > 1000 * Pow2(en - BinaryExponent(ms))
             THEN n - 1
        ELSE n

\* cueTimeToSample
cueTimeToSample(cueTime, sampleRate) ==
    TruncatedProduct(convertCueTimeToSeconds(cueTime), sampleRate)

\* an error value: the message and, for a per-track message, the track
Error(msg, track) == [msg |-> msg, track |-> track]
NoError == Error("", 0)

\* ------------------------------------------------------------------------
\* State
\* ------------------------------------------------------------------------
VARIABLES
    cue,            \* the CueFile being parsed, or the parsed album being split
    config,         \* ParserConfig
    input,          \* the lines of the sheet the scanner has delivered so far
    currentTrack,   \* ParseWithConfig: the open track, or Nil
    albumSet,       \* ParseWithConfig: the album title has been captured
    albumPerformer, \* ParseWithConfig: the album-default performer
    lineNum,        \* ParseWithConfig: lines read
    parseState,     \* "scanning", "ok", "error", or "idle" while splitting
    parseErr,       \* the error ParseWithConfig returned, NoError for nil
    sampleRate,     \* info.SampleRate of the source
    totalSamples,   \* len(samples[0]) of the decoded source
    i,              \* SplitWithGoAudio: index of the next track (0-based)
    splitState,     \* "loop", "returned", "panic", or "idle" while parsing
    ranges,         \* (Number, start, end) handed to extractSampleRange, in order
    files,          \* output files by track number: the sample slice encoded
    tagged,         \* track numbers whose output file carries its tags
    tags,           \* by track number: the comments of the file's tag block
    skipped,        \* track numbers logged as starting beyond the source
    failed,         \* track numbers logged as failed to encode
    tagFailed,      \* track numbers logged as failed to tag
    ioFaults,       \* failures of the file system and of the tools so far
    mode,           \* opts.Mode
    useFFmpeg,      \* opts.UseFFmpeg
    tools,          \* the executables exec.LookPath finds
    strategy,       \* the function Split called, "" before the call
    tool,           \* the external tool the album was handed to, "" for none
    probed,         \* executableExists has been called
    splitErr,       \* the error Split returned, "" for nil
    tempCue,        \* temp.cue exists in the output directory
    firstRun,       \* the output a first run into the directory left, or NoRun
    batch,          \* runSplitter: position in the batch and its counters
    enc             \* encodeFlac: the samples to write and the frames written

parserVars == <<config, input, currentTrack, albumSet, albumPerformer, lineNum,
                parseState, parseErr>>
splitVars == <<sampleRate, totalSamples, i, splitState, ranges, files, tagged, tags,
               skipped, failed, tagFailed, ioFaults>>
modeVars == <<mode, useFFmpeg, tools, strategy, tool, probed, splitErr, tempCue>>
extraVars == <<firstRun, batch, enc>>
vars == <<cue, parserVars, splitVars, modeVars, extraVars>>

\* a nil *Track
Nil == <<>>

\* ------------------------------------------------------------------------
\* writeFlacTags (splitter_external.go)
\* ------------------------------------------------------------------------
\* strconv.Itoa on the track numbers and track counts of the bounded albums
Itoa(n) == <<"0", "1", "2", "3", "4", "5", "6", "7", "8", "9">>[n + 1]

\* m without the key (the file is written anew)
MapRemove(m, key) == [k \in DOMAIN m \ {key} |-> m[k]]

\* MapSet on the files and tag blocks of an output directory
FileSet(m, key, value) ==
    [k \in DOMAIN m \cup {key} |-> IF k = key THEN value ELSE m[k]]

\* mutant: the comments the block already holds are kept
ClearCommentsKeeps(prior) == prior

\* cmts.Comments = nil
ClearComments(prior) == <<>>

\* mutant: an optional tag is added even when its field is empty
OptionalAlways(key, value, empty) == << <<key, value>> >>

\* if field != "" { cmts.Add(key, field) }
Optional(key, value, empty) ==
    IF value # empty THEN << <<key, value>> >> ELSE <<>>

\* writeFlacTags: the comments of the file's tag block after the call, prior
\* being the comments of the block the file had (none for a file without one)
writeFlacTags(c, track, trackNum, prior) ==
    ClearComments(prior)
    \o << <<"TITLE", track.Title>>,
          <<"ARTIST", track.Performer>>,
          <<"ALBUM", c.Album>>,
          <<"PERFORMER", c.Performer>>,
          <<"TRACKNUMBER", Itoa(trackNum)>>,
          <<"TOTALTRACKS", Itoa(Len(c.Tracks))>> >>
    \o Optional("DATE", c.Date, NoDate)
    \o Optional("GENRE", c.Genre, "")
    \o Optional("DESCRIPTION", c.Comment, "")
    \o Optional("CATALOG", c.Catalog, "")
    \o Optional("DISCID", c.DiscID, "")

\* the comments of the block a file carries, none without a block
PriorComments(n) == IF n \in DOMAIN tags THEN tags[n] ELSE <<>>

\* the tag block of a file an external tool has written is the tool's
\* business; it is there before writeFlacTags runs
ToolComments == << <<"ENCODER", "tool">> >>

\* ------------------------------------------------------------------------
\* SplitWithGoAudio (splitter_audio.go)
\* ------------------------------------------------------------------------
NTracks == Len(cue.Tracks)

\* samples[ch][start:end] after the clamp of end to len(samples[ch]); a Go
\* slice expression with start > end panics.  The slice is the view
\* [from, to) of the decoded buffer.
extractSampleRange(total, start, end) ==
    LET e == IF end > total THEN total ELSE end
    IN  [panics |-> start > e, from |-> start, to |-> e]

SliceLen(slice) == slice.to - slice.from

\* encodeFlac refuses an empty slice before it touches the file system
encodeFlacRefuses(slice) == SliceLen(slice) = 0

\* startSample of the track at 0-based position k
StartSample(k) == cueTimeToSample(cue.Tracks[k + 1].Index, sampleRate)

\* mutant: every track is cut at the end of the source
NextSampleAlwaysTotal(k) == totalSamples

\* endSample of the track at position k before the range check
NextSample(k) ==
    IF k < NTracks - 1
    THEN cueTimeToSample(cue.Tracks[k + 2].Index, sampleRate)
    ELSE totalSamples

\* mutant: the clamp of endSample to totalSamples is missing
EndSampleUnclamped(k) == NextSample(k)

\* endSample after the range check
EndSample(k) ==
    IF NextSample(k) > totalSamples THEN totalSamples ELSE NextSample(k)

\* the range check that skips a track
OutOfRange(k) == StartSample(k) >= totalSamples

InLoop == splitState = "loop" /\ i < NTracks

Handed(k) == <<cue.Tracks[k + 1].Number, StartSample(k), EndSample(k)>>

\* iteration: the track starts at or beyond the end of the source
SkipTrack ==
    /\ InLoop
    /\ OutOfRange(i)
    /\ skipped' = skipped \cup {cue.Tracks[i + 1].Number}
    /\ i' = i + 1
    /\ UNCHANGED <<cue, parserVars, extraVars, modeVars, sampleRate, totalSamples, splitState,
                   ranges, files, tagged, tags, failed, tagFailed, ioFaults>>

\* iteration: the slice expression panics, the process dies
ExtractPanics ==
    /\ InLoop
    /\ ~OutOfRange(i)
    /\ extractSampleRange(totalSamples, StartSample(i), EndSample(i)) .panics
    /\ ranges' = Append(ranges, Handed(i))
    /\ splitState' = "panic"
    /\ UNCHANGED <<cue, parserVars, extraVars, modeVars, sampleRate, totalSamples, i, files, tagged, tags,
                   skipped, failed, tagFailed, ioFaults>>

\* iteration: encodeFlac returns an error (no samples, or the output file
\* cannot be created or written); logged, next track
EncodeFails ==
    /\ InLoop
    /\ ~OutOfRange(i)
    /\ LET slice == extractSampleRange(totalSamples, StartSample(i), EndSample(i))
       IN  /\ ~slice.panics
           /\ \/ /\ encodeFlacRefuses(slice)
                 /\ UNCHANGED ioFaults
              \/ /\ ~encodeFlacRefuses(slice)
                 /\ ioFaults < MaxIOFaults
                 /\ ioFaults' = ioFaults + 1
    /\ ranges' = Append(ranges, Handed(i))
    /\ failed' = failed \cup {cue.Tracks[i + 1].Number}
    /\ i' = i + 1
    /\ UNCHANGED <<cue, parserVars, extraVars, modeVars, sampleRate, totalSamples, splitState, files,
                   tagged, tags, skipped, tagFailed>>

\* iteration: the track is encoded; writeFlacTags succeeds or fails
EncodeTrack ==
    /\ InLoop
    /\ ~OutOfRange(i)
    /\ LET slice == extractSampleRange(totalSamples, StartSample(i), EndSample(i))
           n == cue.Tracks[i + 1].Number
       IN  /\ ~slice.panics
           /\ ~encodeFlacRefuses(slice)
           /\ files' = [m \in DOMAIN files \cup {n} |->
                            IF m = n THEN <<slice.from, slice.to>> ELSE files[m]]
           /\ \/ /\ tagged' = tagged \cup {n}
                 /\ tags' = FileSet(tags, n,
                               writeFlacTags(cue, cue.Tracks[i + 1], n, <<>>))
                 /\ UNCHANGED <<tagFailed, ioFaults>>
              \/ /\ ioFaults < MaxIOFaults
                 /\ ioFaults' = ioFaults + 1
                 /\ tagFailed' = tagFailed \cup {n}
                 /\ tagged' = tagged \ {n}
                 /\ tags' = MapRemove(tags, n)
    /\ ranges' = Append(ranges, Handed(i))
    /\ i' = i + 1
    /\ UNCHANGED <<cue, parserVars, extraVars, modeVars, sampleRate, totalSamples, splitState,
                   skipped, failed>>

\* the loop is over: SplitWithGoAudio returns nil
SplitReturns ==
    /\ splitState = "loop"
    /\ i = NTracks
    /\ splitState' = "returned"
    /\ UNCHANGED <<cue, parserVars, extraVars, modeVars, sampleRate, totalSamples, i, ranges, files,
                   tagged, tags, skipped, failed, tagFailed, ioFaults>>

\* ------------------------------------------------------------------------
\* Inputs of the split: parsed albums and decoded sources
\* ------------------------------------------------------------------------
Timecodes ==
    {<<0, s, f>> : s \in SecondChoices, f \in FrameChoices}

IndexChoices == Timecodes \cup {NoTimecode}

\* an album as the parser leaves it: Number is the position
AlbumOf(indices) ==
    [NewCueFile EXCEPT !.Tracks =
        [k \in 1..Len(indices) |-> [NewTrack(k) EXCEPT !.Index = indices[k]]]]

\* strings that do not split into three segments: the empty Index of a
\* track without INDEX 01 line, and "00:01"
MalformedTimecodes == {NoTimecode, <<0, 1>>}

IndexLists ==
    UNION {[1..n -> IndexChoices \cup MalformedTimecodes] : n \in 1..MaxTracks}

\* the two-track album of the specification's worked example, 6 minutes at
\* 44100 Hz
ExampleIndices == <<(<<0, 0, 0>>), (<<3, 0, 0>>)>>
ExampleSource == [rate |-> 44100, total |-> 15876000]

\* no earlier run, no batch, no encoder
NoRun == [ran |-> FALSE, files |-> <<>>, tags |-> <<>>]
BatchIdle ==
    [state |-> "idle", albums |-> <<>>, index |-> 0, successCount |-> 0,
     failureCount |-> 0, skippedCount |-> 0, logged |-> ""]
EncIdle ==
    [state |-> "idle", numChannels |-> 0, numSamples |-> 0, offset |-> 0,
     frames |-> <<>>]
ExtraIdle == firstRun = NoRun /\ batch = BatchIdle /\ enc = EncIdle

\* no mode is being served
ModesIdle ==
    /\ mode = "idle"
    /\ useFFmpeg = FALSE
    /\ tools = [shnsplit |-> FALSE, ffmpeg |-> FALSE]
    /\ strategy = ""
    /\ tool = ""
    /\ probed = FALSE
    /\ splitErr = ""
    /\ tempCue = FALSE

ParserIdle ==
    /\ config = [StrictMode |-> FALSE, ParseCustomREM |-> TRUE]
    /\ input = <<>>
    /\ currentTrack = Nil
    /\ albumSet = FALSE
    /\ albumPerformer = ""
    /\ lineNum = 0
    /\ parseState = "idle"
    /\ parseErr = NoError

InitSplit ==
    /\ ParserIdle
    /\ \/ /\ \E indices \in IndexLists : cue = AlbumOf(indices)
          /\ sampleRate \in SampleRates
          /\ \E d \in SourceSeconds : totalSamples = d * sampleRate
       \/ /\ cue = AlbumOf(ExampleIndices)
          /\ sampleRate = ExampleSource.rate
          /\ totalSamples = ExampleSource.total
    /\ i = 0
    /\ splitState = "loop"
    /\ ranges = <<>>
    /\ files = <<>>
    /\ tagged = {}
    /\ tags = <<>>
    /\ skipped = {}
    /\ failed = {}
    /\ tagFailed = {}
    /\ ioFaults = 0
    /\ ModesIdle
    /\ ExtraIdle

NextSplit ==
    \/ SkipTrack
    \/ ExtractPanics
    \/ EncodeFails
    \/ EncodeTrack
    \/ SplitReturns

SpecSplit == InitSplit /\ [][NextSplit]_vars

\* ------------------------------------------------------------------------
\* Split and the delegated strategies (splitter.go, splitter_audio.go,
\* splitter_external.go)
\* ------------------------------------------------------------------------
Modes == {"ModeExternalTools", "ModeGoAudio", "ModeGoAudioFull", "other"}

\* mutant: the hybrid mode runs the full in-process strategy
StrategyOfHybridIsFull(m) ==
    IF m \in {"ModeGoAudio", "ModeGoAudioFull"} THEN "SplitWithGoAudio"
    ELSE IF m = "ModeExternalTools" THEN "splitWithExternalTools"
    ELSE ""

\* the function the switch on opts.Mode calls, "" in the default case
StrategyOf(m) ==
    IF m = "ModeGoAudio" THEN "SplitWithGoAudioSimple"
    ELSE IF m = "ModeGoAudioFull" THEN "SplitWithGoAudio"
    ELSE IF m = "ModeExternalTools" THEN "splitWithExternalTools"
    ELSE ""

\* Split: the switch on opts.Mode
Split ==
    /\ splitState = "dispatch"
    /\ IF StrategyOf(mode) # ""
       THEN /\ strategy' = StrategyOf(mode)
            /\ splitState' = IF strategy' = "splitWithExternalTools"
                              THEN "choose" ELSE "open"
            /\ UNCHANGED splitErr
       ELSE /\ splitErr' = "unknown split mode"
            /\ splitState' = "returned"
            /\ UNCHANGED strategy
    /\ UNCHANGED <<cue, parserVars, extraVars, sampleRate, totalSamples, i, ranges, files,
                   tagged, tags, skipped, failed, tagFailed, ioFaults, mode, useFFmpeg,
                   tools, tool, probed, tempCue>>

\* flac.Open (and, in the full strategy, readAllSamples) succeeds
OpenSource ==
    /\ splitState = "open"
    /\ splitState' = IF strategy = "SplitWithGoAudio" THEN "loop" ELSE "validate"
    /\ UNCHANGED <<cue, parserVars, extraVars, sampleRate, totalSamples, i, ranges, files,
                   tagged, tags, skipped, failed, tagFailed, ioFaults, modeVars>>

\* flac.Open or readAllSamples fails: the strategy returns the error
OpenSourceFails ==
    /\ splitState = "open"
    /\ ioFaults < MaxIOFaults
    /\ ioFaults' = ioFaults + 1
    /\ splitErr' = "failed to open FLAC file"
    /\ splitState' = "returned"
    /\ UNCHANGED <<cue, parserVars, extraVars, sampleRate, totalSamples, i, ranges, files,
                   tagged, tags, skipped, failed, tagFailed, mode, useFFmpeg, tools,
                   strategy, tool, probed, tempCue>>

\* float64(info.NSamples) / float64(info.SampleRate), in thousandths,
\* rounded down
TotalDuration ==
    (totalSamples \div sampleRate) * 1000
        + ((totalSamples % sampleRate) * 1000) \div sampleRate

\* trackStart > totalDuration for the track at position k
StartsBeyond(k) ==
    convertCueTimeToSeconds(cue.Tracks[k + 1].Index) > TotalDuration

\* SplitWithGoAudioSimple, one iteration of the validation loop
ValidateTrack ==
    /\ splitState = "validate"
    /\ i < NTracks
    /\ IF StartsBeyond(i)
       THEN /\ splitErr' = "track starts beyond the audio"
            /\ splitState' = "returned"
            /\ UNCHANGED i
       ELSE /\ i' = i + 1
            /\ UNCHANGED <<splitErr, splitState>>
    /\ UNCHANGED <<cue, parserVars, extraVars, sampleRate, totalSamples, ranges, files,
                   tagged, tags, skipped, failed, tagFailed, ioFaults, mode, useFFmpeg,
                   tools, strategy, tool, probed, tempCue>>

\* SplitWithGoAudioSimple after the validation loop: ffmpeg if it exists,
\* else shnsplit
HandOff ==
    /\ splitState = "validate"
    /\ i = NTracks
    /\ probed' = TRUE
    /\ IF tools.ffmpeg
       THEN tool' = "ffmpeg" /\ splitState' = "ffmpeg" /\ UNCHANGED splitErr
       ELSE IF tools.shnsplit
       THEN tool' = "shnsplit" /\ splitState' = "shnsplit" /\ UNCHANGED splitErr
       ELSE /\ splitErr' = "no external tools available for splitting"
            /\ splitState' = "returned"
            /\ UNCHANGED tool
    /\ i' = 0
    /\ UNCHANGED <<cue, parserVars, extraVars, sampleRate, totalSamples, ranges, files,
                   tagged, tags, skipped, failed, tagFailed, ioFaults, mode, useFFmpeg,
                   tools, strategy, tempCue>>

\* splitWithExternalTools: the choice of the tool
ChooseTool ==
    /\ splitState = "choose"
    /\ probed' = TRUE
    /\ IF ~tools.shnsplit /\ ~tools.ffmpeg
       THEN /\ splitErr' = "neither shnsplit nor ffmpeg found"
            /\ splitState' = "returned"
            /\ UNCHANGED tool
       ELSE IF useFFmpeg /\ tools.ffmpeg
       THEN tool' = "ffmpeg" /\ splitState' = "ffmpeg" /\ UNCHANGED splitErr
       ELSE IF tools.shnsplit
       THEN tool' = "shnsplit" /\ splitState' = "shnsplit" /\ UNCHANGED splitErr
       ELSE tool' = "ffmpeg" /\ splitState' = "ffmpeg" /\ UNCHANGED splitErr
    /\ UNCHANGED <<cue, parserVars, extraVars, sampleRate, totalSamples, i, ranges, files,
                   tagged, tags, skipped, failed, tagFailed, ioFaults, mode, useFFmpeg,
                   tools, strategy, tempCue>>

\* calculateDuration: the "%.3f" rendering of end - start in thousandths, 0
\* for the empty string it returns when the difference is not positive
calculateDuration(start, end) ==
    LET duration == convertCueTimeToSeconds(end) - convertCueTimeToSeconds(start)
    IN  IF duration <= 0 THEN 0 ELSE duration

\* the cut ffmpeg is asked for: -ss start, and -t duration unless the track
\* is the last or the duration string is empty
FFmpegCut(k) ==
    LET startTime == convertCueTimeToSeconds(cue.Tracks[k + 1].Index)
        duration == IF k < NTracks - 1
                    THEN calculateDuration(cue.Tracks[k + 1].Index,
                                           cue.Tracks[k + 2].Index)
                    ELSE 0
    IN  IF duration # 0 THEN <<startTime, duration>> ELSE <<startTime>>

\* splitWithFFmpeg, one iteration: ffmpeg writes the track's file, or fails
\* and the failure is logged
FFmpegTrack ==
    /\ splitState = "ffmpeg"
    /\ i < NTracks
    /\ LET n == cue.Tracks[i + 1].Number
       IN  \/ /\ files' = [m \in DOMAIN files \cup {n} |->
                                IF m = n THEN FFmpegCut(i) ELSE files[m]]
              /\ tagged' = tagged \ {n}
              /\ tags' = FileSet(tags, n, ToolComments)
              /\ UNCHANGED <<failed, ioFaults>>
           \/ /\ ioFaults < MaxIOFaults
              /\ ioFaults' = ioFaults + 1
              /\ failed' = failed \cup {n}
              /\ UNCHANGED <<files, tagged, tags>>
    /\ i' = i + 1
    /\ UNCHANGED <<cue, parserVars, extraVars, sampleRate, totalSamples,
                   splitState, ranges, skipped, tagFailed, modeVars>>

\* splitWithFFmpeg after its loop: applyMetadataTags
FFmpegDone ==
    /\ splitState = "ffmpeg"
    /\ i = NTracks
    /\ splitState' = "tagging"
    /\ i' = 0
    /\ UNCHANGED <<cue, parserVars, extraVars, sampleRate, totalSamples, ranges, files,
                   tagged, tags, skipped, failed, tagFailed, ioFaults, modeVars>>

\* splitWithShnsplit: copyCueFile writes temp.cue
CopyCueFile ==
    /\ splitState = "shnsplit"
    /\ tempCue' = TRUE
    /\ splitState' = "shnsplit run"
    /\ UNCHANGED <<cue, parserVars, extraVars, sampleRate, totalSamples, i, ranges, files,
                   tagged, tags, skipped, failed, tagFailed, ioFaults, mode, useFFmpeg,
                   tools, strategy, tool, probed, splitErr>>

\* splitWithShnsplit: copyCueFile fails, before temp.cue is created (os.Open,
\* os.Create) or after (scanner.Err); the removal of temp.cue is deferred
\* only once copyCueFile has succeeded
CopyCueFileFails ==
    /\ splitState = "shnsplit"
    /\ ioFaults < MaxIOFaults
    /\ ioFaults' = ioFaults + 1
    /\ tempCue' \in BOOLEAN
    /\ splitErr' = "failed to create temporary CUE file"
    /\ splitState' = "returned"
    /\ UNCHANGED <<cue, parserVars, extraVars, sampleRate, totalSamples, i, ranges, files,
                   tagged, tags, skipped, failed, tagFailed, mode, useFFmpeg, tools,
                   strategy, tool, probed>>

\* splitWithShnsplit: shnsplit cuts the album into one file per track, whose
\* content is the tool's business
ShnsplitRuns ==
    /\ splitState = "shnsplit run"
    /\ files' = [n \in {cue.Tracks[k].Number : k \in 1..NTracks} |-> <<>>]
    /\ tagged' = {}
    /\ tags' = [n \in {cue.Tracks[k].Number : k \in 1..NTracks} |-> ToolComments]
    /\ splitState' = "tagging"
    /\ i' = 0
    /\ UNCHANGED <<cue, parserVars, extraVars, sampleRate, totalSamples, ranges,
                   skipped, failed, tagFailed, ioFaults, modeVars>>

\* splitWithShnsplit: shnsplit fails; the error is returned and the deferred
\* os.Remove deletes temp.cue
ShnsplitFails ==
    /\ splitState = "shnsplit run"
    /\ ioFaults < MaxIOFaults
    /\ ioFaults' = ioFaults + 1
    /\ splitErr' = "shnsplit failed"
    /\ tempCue' = FALSE
    /\ splitState' = "returned"
    /\ UNCHANGED <<cue, parserVars, extraVars, sampleRate, totalSamples, i, ranges, files,
                   tagged, tags, skipped, failed, tagFailed, mode, useFFmpeg, tools,
                   strategy, tool, probed>>

\* applyMetadataTags, one iteration: writeFlacTags fails when the track's
\* file is not there or cannot be read or saved; the failure is logged
TagTrack ==
    /\ splitState = "tagging"
    /\ i < NTracks
    /\ LET n == cue.Tracks[i + 1].Number
       IN  \/ /\ n \in DOMAIN files
              /\ tagged' = tagged \cup {n}
              /\ tags' = FileSet(tags, n,
                            writeFlacTags(cue, cue.Tracks[i + 1], n,
                                          PriorComments(n)))
              /\ UNCHANGED <<tagFailed, ioFaults>>
           \/ /\ n \in DOMAIN files
              /\ ioFaults < MaxIOFaults
              /\ ioFaults' = ioFaults + 1
              /\ tagFailed' = tagFailed \cup {n}
              /\ UNCHANGED <<tagged, tags>>
           \/ /\ n \notin DOMAIN files
              /\ tagFailed' = tagFailed \cup {n}
              /\ UNCHANGED <<tagged, tags, ioFaults>>
    /\ i' = i + 1
    /\ UNCHANGED <<cue, parserVars, extraVars, sampleRate, totalSamples, splitState, ranges,
                   files, skipped, failed, modeVars>>

\* applyMetadataTags returns nil, and so does the strategy; the removal
\* splitWithShnsplit deferred deletes temp.cue
TagsDone ==
    /\ splitState = "tagging"
    /\ i = NTracks
    /\ tempCue' = FALSE
    /\ splitState' = "returned"
    /\ UNCHANGED <<cue, parserVars, extraVars, sampleRate, totalSamples, i, ranges, files,
                   tagged, tags, skipped, failed, tagFailed, ioFaults, mode, useFFmpeg,
                   tools, strategy, tool, probed, splitErr>>

\* splitWithShnsplit on a directory that already holds the tracks' files:
\* shnsplit is run without an overwrite option, so whether it replaces the
\* files (ShnsplitRuns), leaves them and exits successfully, or leaves them
\* and fails is the tool's choice
ShnsplitLeavesOutputs ==
    /\ splitState = "shnsplit run"
    /\ DOMAIN files # {}
    /\ \/ /\ splitState' = "tagging"
          /\ i' = 0
          /\ UNCHANGED <<splitErr, tempCue>>
       \/ /\ splitErr' = "shnsplit failed"
          /\ tempCue' = FALSE
          /\ splitState' = "returned"
          /\ UNCHANGED i
    /\ UNCHANGED <<cue, parserVars, extraVars, sampleRate, totalSamples, ranges,
                   files, tagged, tags, skipped, failed, tagFailed, ioFaults,
                   mode, useFFmpeg, tools, strategy, tool, probed>>

\* the same split is started again, on the same sheet and source and into
\* the same output directory, after a run that met no input/output failure
Rerun ==
    /\ splitState \in {"returned", "panic"}
    /\ ~firstRun.ran
    /\ ioFaults = 0
    /\ firstRun' = [ran |-> TRUE, files |-> files, tags |-> tags]
    /\ splitState' = "dispatch"
    /\ i' = 0
    /\ ranges' = <<>>
    /\ skipped' = {}
    /\ failed' = {}
    /\ tagFailed' = {}
    /\ strategy' = ""
    /\ tool' = ""
    /\ probed' = FALSE
    /\ splitErr' = ""
    /\ UNCHANGED <<cue, parserVars, batch, enc, sampleRate, totalSamples, files,
                   tagged, tags, ioFaults, mode, useFFmpeg, tools, tempCue>>

ModeIndexLists == UNION {[1..n -> IndexChoices] : n \in 1..MaxModeTracks}

InitModes ==
    /\ ParserIdle
    /\ \E indices \in ModeIndexLists : cue = AlbumOf(indices)
    /\ sampleRate \in SampleRates
    /\ \E d \in SourceSeconds : totalSamples = d * sampleRate
    /\ i = 0
    /\ splitState = "dispatch"
    /\ ranges = <<>>
    /\ files = <<>>
    /\ tagged = {}
    /\ tags = <<>>
    /\ skipped = {}
    /\ failed = {}
    /\ tagFailed = {}
    /\ ioFaults = 0
    /\ mode \in Modes
    /\ useFFmpeg \in BOOLEAN
    /\ tools \in [shnsplit : BOOLEAN, ffmpeg : BOOLEAN]
    /\ strategy = ""
    /\ tool = ""
    /\ probed = FALSE
    /\ splitErr = ""
    /\ tempCue = FALSE
    /\ ExtraIdle

NextModes ==
    \/ Split
    \/ OpenSource
    \/ OpenSourceFails
    \/ SkipTrack
    \/ ExtractPanics
    \/ EncodeFails
    \/ EncodeTrack
    \/ SplitReturns
    \/ ValidateTrack
    \/ HandOff
    \/ ChooseTool
    \/ FFmpegTrack
    \/ FFmpegDone
    \/ CopyCueFile
    \/ CopyCueFileFails
    \/ ShnsplitRuns
    \/ ShnsplitFails
    \/ TagTrack
    \/ TagsDone
    \/ ShnsplitLeavesOutputs
    \/ Rerun

SpecModes == InitModes /\ [][NextModes]_vars

\* ------------------------------------------------------------------------
\* applyMetadataTags on albums with metadata
\* ------------------------------------------------------------------------
\* a Go map with one entry
OneField(key, value) == [k \in {key} |-> value]

\* parsed albums of one or two tracks, each album field set or empty
TagAlbums ==
    {[NewCueFile EXCEPT
        !.Album = "Title A", !.Performer = "Band A",
        !.Date = date, !.Genre = genre, !.Comment = comment,
        !.Catalog = catalog, !.DiscID = discid, !.CustomFields = custom,
        !.Tracks = [k \in 1..n |->
                       [NewTrack(k) EXCEPT
                           !.Title = IF k = 1 THEN "Title B" ELSE "",
                           !.Performer = "Band A",
                           !.Index = <<0, k - 1, 0>>,
                           !.CustomFields = IF k = 1 THEN trackCustom
                                            ELSE NoCustomFields]]] :
     date \in {NoDate, DateFull("1999", "-05-06")},
     genre \in {"", "Rock"}, comment \in {"", "Ripped"},
     catalog \in {"", "0123456789012"}, discid \in {"", "1A2B3C4D"},
     custom \in {NoCustomFields, OneField("MOOD", "Energetic")},
     trackCustom \in {NoCustomFields, OneField("MOOD", "Calm")},
     n \in 1..2}

\* the block an earlier tagging of other metadata left
OldComments == << <<"TITLE", "Old">>, <<"GENRE", "Old">>, <<"LABEL", "Old">> >>

\* the split files are there, tagged by the tool or by an earlier run;
\* applyMetadataTags starts
InitTags ==
    /\ ParserIdle
    /\ cue \in TagAlbums
    /\ sampleRate = 25
    /\ totalSamples = 50
    /\ i = 0
    /\ splitState = "tagging"
    /\ ranges = <<>>
    /\ files = [n \in 1..NTracks |-> <<>>]
    /\ tagged = {}
    /\ \E block \in {ToolComments, OldComments} :
          tags = [n \in 1..NTracks |-> block]
    /\ skipped = {}
    /\ failed = {}
    /\ tagFailed = {}
    /\ ioFaults = 0
    /\ mode = "ModeExternalTools"
    /\ useFFmpeg = FALSE
    /\ tools = [shnsplit |-> TRUE, ffmpeg |-> FALSE]
    /\ strategy = "splitWithExternalTools"
    /\ tool = "shnsplit"
    /\ probed = TRUE
    /\ splitErr = ""
    /\ tempCue = TRUE
    /\ ExtraIdle

NextTags ==
    \/ TagTrack
    \/ TagsDone

SpecTags == InitTags /\ [][NextTags]_vars

\* ------------------------------------------------------------------------
\* runSplitter: the loop over the CUE files found, in the default mode
\* ------------------------------------------------------------------------
\* the index lists of the albums a batch may hold: one track, two tracks in
\* order, two tracks of which the second starts at the end of the source,
\* two tracks whose second index precedes the first
BatchIndexLists ==
    {<< <<0, 0, 0>> >>,
     << <<0, 0, 0>>, <<0, 1, 0>> >>,
     << <<0, 0, 0>>, <<0, 2, 0>> >>,
     << <<0, 1, 0>>, <<0, 0, 0>> >>}

BatchLists == UNION {[1..n -> BatchIndexLists] : n \in 1..MaxAlbums}

AtAlbum == batch.state = "loop" /\ batch.index < Len(batch.albums)

\* the state of the splitter between two albums
BetweenAlbums ==
    /\ i' = 0
    /\ ranges' = <<>>
    /\ files' = <<>>
    /\ tagged' = {}
    /\ tags' = <<>>
    /\ skipped' = {}
    /\ failed' = {}
    /\ tagFailed' = {}
    /\ strategy' = ""
    /\ splitErr' = ""

InitBatch ==
    /\ ParserIdle
    /\ cue = NewCueFile
    /\ sampleRate = 25
    /\ totalSamples = 50
    /\ i = 0
    /\ splitState = "idle"
    /\ ranges = <<>>
    /\ files = <<>>
    /\ tagged = {}
    /\ tags = <<>>
    /\ skipped = {}
    /\ failed = {}
    /\ tagFailed = {}
    /\ ioFaults = 0
    /\ mode = "ModeGoAudioFull"
    /\ useFFmpeg = FALSE
    /\ tools = [shnsplit |-> FALSE, ffmpeg |-> FALSE]
    /\ strategy = ""
    /\ tool = ""
    /\ probed = FALSE
    /\ splitErr = ""
    /\ tempCue = FALSE
    /\ firstRun = NoRun
    /\ enc = EncIdle
    /\ \E albums \in BatchLists :
          batch = [BatchIdle EXCEPT !.state = "loop", !.albums = albums]

\* cueparser.Parse returns an error: failureCount++, continue
BatchParseFails ==
    /\ AtAlbum
    /\ batch' = [batch EXCEPT !.failureCount = @ + 1, !.index = @ + 1,
                              !.logged = "Error parsing CUE file"]
    /\ UNCHANGED <<cue, parserVars, splitVars, modeVars, firstRun, enc>>

\* the audio file does not exist: skippedCount++, continue
BatchSkips ==
    /\ AtAlbum
    /\ batch' = [batch EXCEPT !.skippedCount = @ + 1, !.index = @ + 1,
                              !.logged = "Skipped: FLAC file not found"]
    /\ UNCHANGED <<cue, parserVars, splitVars, modeVars, firstRun, enc>>

\* createOutputDirectory returns an error: failureCount++, continue
BatchDirectoryFails ==
    /\ AtAlbum
    /\ batch' = [batch EXCEPT !.failureCount = @ + 1, !.index = @ + 1,
                              !.logged = "Error creating output directory"]
    /\ UNCHANGED <<cue, parserVars, splitVars, modeVars, firstRun, enc>>

\* the album is parsed, its audio file and output directory are there:
\* flacsplitter.Split is called
BatchCallsSplit ==
    /\ AtAlbum
    /\ cue' = AlbumOf(batch.albums[batch.index + 1])
    /\ batch' = [batch EXCEPT !.state = "splitting"]
    /\ splitState' = "dispatch"
    /\ BetweenAlbums
    /\ UNCHANGED <<parserVars, sampleRate, totalSamples, ioFaults, mode,
                   useFFmpeg, tools, tool, probed, tempCue, firstRun, enc>>

\* Split has returned: failureCount++ on an error, successCount++ otherwise
BatchSplitReturned ==
    /\ batch.state = "splitting"
    /\ splitState = "returned"
    /\ batch' = IF splitErr # ""
                THEN [batch EXCEPT !.state = "loop", !.failureCount = @ + 1,
                                   !.index = @ + 1,
                                   !.logged = "Error splitting FLAC file"]
                ELSE [batch EXCEPT !.state = "loop", !.successCount = @ + 1,
                                   !.index = @ + 1,
                                   !.logged = "Successfully processed"]
    /\ splitState' = "idle"
    /\ UNCHANGED <<cue, parserVars, sampleRate, totalSamples, i, ranges, files,
                   tagged, tags, skipped, failed, tagFailed, ioFaults,
                   modeVars, firstRun, enc>>

\* the loop is over: the summary is printed and the process exits
BatchSummary ==
    /\ batch.state = "loop"
    /\ batch.index = Len(batch.albums)
    /\ batch' = [batch EXCEPT !.state = "summary"]
    /\ UNCHANGED <<cue, parserVars, splitVars, modeVars, firstRun, enc>>

\* runSplitter has no recover: a panic inside Split (splitState = "panic")
\* ends the process, and no action is enabled any more
NextBatch ==
    \/ BatchParseFails
    \/ BatchSkips
    \/ BatchDirectoryFails
    \/ BatchCallsSplit
    \/ Split
    \/ OpenSource
    \/ OpenSourceFails
    \/ SkipTrack
    \/ ExtractPanics
    \/ EncodeFails
    \/ EncodeTrack
    \/ SplitReturns
    \/ BatchSplitReturned
    \/ BatchSummary

SpecBatch == InitBatch /\ [][NextBatch]_vars

\* ------------------------------------------------------------------------
\* Sheet lines (the regular expressions of initPatterns)
\* ------------------------------------------------------------------------
\* A line is the directive it carries and the texts its pattern captures:
\* val and val2 are captured strings, date a captured date, tc a captured
\* timecode, num the number written after TRACK.
Line(kw, key, val, val2, date, tc, num) ==
    [kw |-> kw, key |-> key, val |-> val, val2 |-> val2, date |-> date,
     tc |-> tc, num |-> num]

FileLine(name, type) == Line("FILE", "", name, type, <<>>, <<>>, 0)
CatalogLine(digits) == Line("CATALOG", "", digits, "", <<>>, <<>>, 0)
RemDateLine(key, date) == Line("REM", key, "", "", date, <<>>, 0)
RemLine(key, val, val2) == Line("REM", key, val, val2, <<>>, <<>>, 0)
TextLine(kw, val) == Line(kw, "", val, "", <<>>, <<>>, 0)
TrackLine(num) == Line("TRACK", "", "", "", <<>>, <<>>, num)
IndexLine(kw, tc) == Line(kw, "", "", "", <<>>, tc, 0)
OtherLine == Line("OTHER", "", "", "", <<>>, <<>>, 0)

\* matches[1][:4]
FirstFour(date) == <<date[1]>>

\* the lines every complete sheet has
CoreLines ==
    {FileLine("a.flac", "WAVE"), TextLine("TITLE", "Title A"), TrackLine(7),
     IndexLine("INDEX01", <<0, 1, 0>>)}

\* core lines, further names, dates, a second file, a catalog number and an
\* index line with 75 in the frames segment
TextLines ==
    CoreLines \cup
    {FileLine("b.flac", "FLAC"), CatalogLine("0123456789012"),
     RemDateLine("DATE", DateFull("1999", "-05-06")),
     RemDateLine("YEAR", Date4("1987")),
     TextLine("PERFORMER", "Band A"), TextLine("PERFORMER", "Band B"),
     TextLine("COMPOSER", "Composer A"), TextLine("COMPOSER", "Composer B"),
     TextLine("SONGWRITER", "Writer A"), TextLine("TITLE", "Title B"),
     IndexLine("INDEX01", <<0, 1, 75>>)}

\* the lines the bounded sheets are made of.  "REM MOOD Energetic " ends in
\* a blank; "REM DATE unknown" has a known key and no date after it.
SheetLines ==
    TextLines \cup
    {RemDateLine("DATE", Date4("2001")),
     RemLine("GENRE", "Rock", ""), RemLine("DISCNUMBER", "1", "2"),
     RemLine("MOOD", "Energetic ", ""), RemLine("mood", "Energetic", ""),
     RemLine("DATE", "unknown", ""),
     IndexLine("INDEX00", <<0, 0, 74>>),
     TextLine("ISRC", "USRC17607839"),
     OtherLine}

Configs == [StrictMode : BOOLEAN, ParseCustomREM : BOOLEAN]

\* the keys parseREMField handles itself and keeps out of CustomFields
knownFields == {"DATE", "YEAR", "GENRE", "COMMENT", "DISCID", "DISCNUMBER", "DISC"}

\* m[key] = value on a Go map
MapSet(m, key, value) ==
    [k \in DOMAIN m \cup {key} |-> IF k = key THEN value ELSE m[k]]

\* ------------------------------------------------------------------------
\* ParseWithConfig (parser.go)
\* ------------------------------------------------------------------------
\* strings.TrimSpace and strings.ToUpper on the texts of the bounded sheets
TrimSpace(text) == IF text = "Energetic " THEN "Energetic" ELSE text
ToUpper(text) == IF text = "mood" THEN "MOOD" ELSE text

\* remCustom: the key is written [A-Z_][A-Z0-9_]* and a value follows
MatchesCustom(line) == line.key = ToUpper(line.key) /\ line.val # ""

\* mutant: a YEAR line always sets the date
BackfillDateAlways(c, year) == year

\* if cue.Date == "" { cue.Date = matches[1] }
BackfillDate(c, year) == IF c.Date = NoDate THEN year ELSE c.Date

\* parseREMField
parseREMField(c, line, cfg) ==
    IF line.key = "DATE" /\ line.date # NoDate
    THEN [c EXCEPT !.Date = line.date, !.Year = FirstFour(line.date)]
    ELSE IF line.key = "YEAR" /\ line.date # NoDate
    THEN [c EXCEPT !.Year = line.date,
                   !.Date = BackfillDate(c, line.date)]
    ELSE IF line.key = "GENRE" /\ line.val # ""
    THEN [c EXCEPT !.Genre = TrimSpace(line.val)]
    ELSE IF line.key = "COMMENT" /\ line.val # ""
    THEN [c EXCEPT !.Comment = TrimSpace(line.val)]
    ELSE IF line.key = "DISCID" /\ line.val # ""
    THEN [c EXCEPT !.DiscID = TrimSpace(line.val)]
    ELSE IF line.key \in {"DISCNUMBER", "DISC"} /\ line.val # ""
    THEN [c EXCEPT !.DiscNumber = line.val,
                   !.TotalDiscs = IF line.val2 # "" THEN line.val2
                                  ELSE c.TotalDiscs]
    ELSE IF cfg.ParseCustomREM /\ MatchesCustom(line)
    THEN LET key == ToUpper(TrimSpace(line.key))
             value == TrimSpace(line.val)
         IN  IF key \notin knownFields
             THEN [c EXCEPT !.CustomFields = MapSet(c.CustomFields, key, value)]
             ELSE c
    ELSE c

\* mutant: the defaulting is missing
fillTrackDefaultsNever(track, performer) == track

\* fillTrackDefaults
fillTrackDefaults(track, performer) ==
    IF track.Performer = ""
    THEN [track EXCEPT !.Performer = performer]
    ELSE track

\* mutant: a closed track also takes the album's composer and songwriter
CloseTrackDefaultsAll(c, open, performer) ==
    IF open = Nil THEN c
    ELSE LET t == fillTrackDefaults(open[1], performer)
         IN  [c EXCEPT !.Tracks = Append(c.Tracks,
                [t EXCEPT !.Composer = IF @ = "" THEN c.Composer ELSE @,
                          !.Songwriter = IF @ = "" THEN c.Songwriter ELSE @])]

\* fillTrackDefaults(currentTrack, albumPerformer); append(cue.Tracks, ...)
CloseTrack(c, open, performer) ==
    IF open = Nil THEN c
    ELSE [c EXCEPT !.Tracks = Append(c.Tracks, fillTrackDefaults(open[1], performer))]

\* the first track, in list order, whose title or index is empty; 0 if none
FirstIncomplete(c) ==
    IF \E k \in 1..Len(c.Tracks) :
           c.Tracks[k].Title = "" \/ c.Tracks[k].Index = NoTimecode
    THEN CHOOSE k \in 1..Len(c.Tracks) :
            /\ c.Tracks[k].Title = "" \/ c.Tracks[k].Index = NoTimecode
            /\ \A j \in 1..(k - 1) :
                  c.Tracks[j].Title # "" /\ c.Tracks[j].Index # NoTimecode
    ELSE 0

\* mutant: a track's index is checked before its title
ValidateIndexBeforeTitle(c) ==
    IF c.AudioFile = "" THEN Error("missing FILE directive", 0)
    ELSE IF c.Album = "" THEN Error("missing album TITLE", 0)
    ELSE IF Len(c.Tracks) = 0 THEN Error("no tracks found", 0)
    ELSE IF FirstIncomplete(c) # 0
    THEN IF c.Tracks[FirstIncomplete(c)].Index = NoTimecode
         THEN Error("track missing INDEX 01", FirstIncomplete(c))
         ELSE Error("track missing TITLE", FirstIncomplete(c))
    ELSE NoError

\* mutant: the check for an empty track list is missing
ValidateWithoutTrackCount(c) ==
    IF c.AudioFile = "" THEN Error("missing FILE directive", 0)
    ELSE IF c.Album = "" THEN Error("missing album TITLE", 0)
    ELSE IF FirstIncomplete(c) # 0
    THEN IF c.Tracks[FirstIncomplete(c)].Title = ""
         THEN Error("track missing TITLE", FirstIncomplete(c))
         ELSE Error("track missing INDEX 01", FirstIncomplete(c))
    ELSE NoError

\* Validate
Validate(c) ==
    IF c.AudioFile = "" THEN Error("missing FILE directive", 0)
    ELSE IF c.Album = "" THEN Error("missing album TITLE", 0)
    ELSE IF Len(c.Tracks) = 0 THEN Error("no tracks found", 0)
    ELSE IF FirstIncomplete(c) # 0
    THEN IF c.Tracks[FirstIncomplete(c)].Title = ""
         THEN Error("track missing TITLE", FirstIncomplete(c))
         ELSE Error("track missing INDEX 01", FirstIncomplete(c))
    ELSE NoError

\* mutant: the track takes the number written in the sheet
NextTrackNumberWritten(c, line) == line.num

\* Number: len(cue.Tracks) + 1
NextTrackNumber(c, line) == Len(c.Tracks) + 1

\* the sheet read so far, with one more line, is a bounded sheet of the
\* given lines
Fits(line, lines, max) ==
    /\ lineNum < max
    /\ line \in lines
    /\ \A p \in 1..Len(input) : input[p] \in lines

\* scanner.Scan() delivers one more line
Scan(line) ==
    /\ parseState = "scanning"
    /\ \/ Fits(line, SheetLines, MaxLines)
       \/ Fits(line, TextLines, MaxTextLines)
       \/ Fits(line, CoreLines, MaxCoreLines)
    /\ lineNum' = lineNum + 1
    /\ input' = Append(input, line)

InTrack == currentTrack # Nil

\* a FILE line
ScanFile ==
    \E line \in SheetLines :
        /\ Scan(line)
        /\ line.kw = "FILE"
        /\ cue' = [cue EXCEPT !.AudioFile = line.val, !.AudioFileType = line.val2]
        /\ UNCHANGED <<config, currentTrack, albumSet, albumPerformer,
                       parseState, parseErr, splitVars, modeVars, extraVars>>

\* a CATALOG line
ScanCatalog ==
    \E line \in SheetLines :
        /\ Scan(line)
        /\ line.kw = "CATALOG"
        /\ cue' = [cue EXCEPT !.Catalog = line.val]
        /\ UNCHANGED <<config, currentTrack, albumSet, albumPerformer,
                       parseState, parseErr, splitVars, modeVars, extraVars>>

\* a REM line; parseREMField never returns an error
ScanRem ==
    \E line \in SheetLines :
        /\ Scan(line)
        /\ line.kw = "REM"
        /\ cue' = parseREMField(cue, line, config)
        /\ UNCHANGED <<config, currentTrack, albumSet, albumPerformer,
                       parseState, parseErr, splitVars, modeVars, extraVars>>

\* a PERFORMER line
ScanPerformer ==
    \E line \in SheetLines :
        /\ Scan(line)
        /\ line.kw = "PERFORMER"
        /\ IF ~InTrack
           THEN /\ IF albumPerformer = ""
                   THEN /\ albumPerformer' = line.val
                        /\ cue' = [cue EXCEPT !.Performer = line.val]
                   ELSE UNCHANGED <<albumPerformer, cue>>
                /\ UNCHANGED currentTrack
           ELSE /\ currentTrack' = <<[currentTrack[1] EXCEPT !.Performer = line.val]>>
                /\ UNCHANGED <<albumPerformer, cue>>
        /\ UNCHANGED <<config, albumSet, parseState, parseErr, splitVars, modeVars, extraVars>>

\* a COMPOSER line
ScanComposer ==
    \E line \in SheetLines :
        /\ Scan(line)
        /\ line.kw = "COMPOSER"
        /\ IF ~InTrack
           THEN /\ cue' = [cue EXCEPT !.Composer = line.val]
                /\ UNCHANGED currentTrack
           ELSE /\ currentTrack' = <<[currentTrack[1] EXCEPT !.Composer = line.val]>>
                /\ UNCHANGED cue
        /\ UNCHANGED <<config, albumSet, albumPerformer, parseState, parseErr,
                       splitVars, modeVars, extraVars>>

\* a SONGWRITER line
ScanSongwriter ==
    \E line \in SheetLines :
        /\ Scan(line)
        /\ line.kw = "SONGWRITER"
        /\ IF ~InTrack
           THEN /\ cue' = [cue EXCEPT !.Songwriter = line.val]
                /\ UNCHANGED currentTrack
           ELSE /\ currentTrack' = <<[currentTrack[1] EXCEPT !.Songwriter = line.val]>>
                /\ UNCHANGED cue
        /\ UNCHANGED <<config, albumSet, albumPerformer, parseState, parseErr,
                       splitVars, modeVars, extraVars>>

\* mutant: every TITLE line outside a track sets the album title
ScanTitleLastWins ==
    \E line \in SheetLines :
        /\ Scan(line)
        /\ line.kw = "TITLE"
        /\ IF ~InTrack
           THEN /\ cue' = [cue EXCEPT !.Album = line.val]
                /\ albumSet' = TRUE
                /\ UNCHANGED currentTrack
           ELSE /\ currentTrack' = <<[currentTrack[1] EXCEPT !.Title = line.val]>>
                /\ UNCHANGED <<cue, albumSet>>
        /\ UNCHANGED <<config, albumPerformer, parseState, parseErr, splitVars, modeVars, extraVars>>

\* a TITLE line
ScanTitle ==
    \E line \in SheetLines :
        /\ Scan(line)
        /\ line.kw = "TITLE"
        /\ IF ~albumSet /\ ~InTrack
           THEN /\ cue' = [cue EXCEPT !.Album = line.val]
                /\ albumSet' = TRUE
                /\ UNCHANGED currentTrack
           ELSE IF InTrack
           THEN /\ currentTrack' = <<[currentTrack[1] EXCEPT !.Title = line.val]>>
                /\ UNCHANGED <<cue, albumSet>>
           ELSE UNCHANGED <<cue, albumSet, currentTrack>>
        /\ UNCHANGED <<config, albumPerformer, parseState, parseErr, splitVars, modeVars, extraVars>>

\* a TRACK line
ScanTrack ==
    \E line \in SheetLines :
        /\ Scan(line)
        /\ line.kw = "TRACK"
        /\ cue' = CloseTrack(cue, currentTrack, albumPerformer)
        /\ currentTrack' = <<NewTrack(NextTrackNumber(cue', line))>>
        /\ UNCHANGED <<config, albumSet, albumPerformer, parseState, parseErr,
                       splitVars, modeVars, extraVars>>

\* an INDEX 01, INDEX 00 or ISRC line inside a track
ScanTrackField ==
    \E line \in SheetLines :
        /\ Scan(line)
        /\ line.kw \in {"INDEX01", "INDEX00", "ISRC"}
        /\ InTrack
        /\ currentTrack' =
              IF line.kw = "INDEX01"
              THEN <<[currentTrack[1] EXCEPT !.Index = line.tc]>>
              ELSE IF line.kw = "INDEX00"
              THEN <<[currentTrack[1] EXCEPT !.PreGap = line.tc]>>
              ELSE <<[currentTrack[1] EXCEPT !.ISRC = line.val]>>
        /\ UNCHANGED <<cue, config, albumSet, albumPerformer, parseState,
                       parseErr, splitVars, modeVars, extraVars>>

\* a line no rule applies to
ScanIgnored ==
    \E line \in SheetLines :
        /\ Scan(line)
        /\ \/ line.kw = "OTHER"
           \/ line.kw \in {"INDEX01", "INDEX00", "ISRC"} /\ ~InTrack
        /\ UNCHANGED <<cue, config, currentTrack, albumSet, albumPerformer,
                       parseState, parseErr, splitVars, modeVars, extraVars>>

\* end of input: the open track is added, strict mode validates
ParseEnd ==
    /\ parseState = "scanning"
    /\ cue' = CloseTrack(cue, currentTrack, albumPerformer)
    /\ parseErr' = IF config.StrictMode THEN Validate(cue') ELSE NoError
    /\ parseState' = IF parseErr' = NoError THEN "ok" ELSE "error"
    /\ UNCHANGED <<config, input, currentTrack, albumSet, albumPerformer,
                   lineNum, splitVars, modeVars, extraVars>>

\* the scanner stops on a read error: the open track is added, the error
\* is returned
ParseReadError ==
    /\ parseState = "scanning"
    /\ cue' = CloseTrack(cue, currentTrack, albumPerformer)
    /\ parseErr' = Error("error reading CUE file", 0)
    /\ parseState' = "error"
    /\ UNCHANGED <<config, input, currentTrack, albumSet, albumPerformer,
                   lineNum, splitVars, modeVars, extraVars>>

SplitIdle ==
    /\ sampleRate = 0
    /\ totalSamples = 0
    /\ i = 0
    /\ splitState = "idle"
    /\ ranges = <<>>
    /\ files = <<>>
    /\ tagged = {}
    /\ tags = <<>>
    /\ skipped = {}
    /\ failed = {}
    /\ tagFailed = {}
    /\ ioFaults = 0
    /\ ModesIdle
    /\ ExtraIdle

Init ==
    /\ cue = NewCueFile
    /\ config \in Configs
    /\ input = <<>>
    /\ currentTrack = Nil
    /\ albumSet = FALSE
    /\ albumPerformer = ""
    /\ lineNum = 0
    /\ parseState = "scanning"
    /\ parseErr = NoError
    /\ SplitIdle

Next ==
    \/ ScanFile
    \/ ScanCatalog
    \/ ScanRem
    \/ ScanPerformer
    \/ ScanComposer
    \/ ScanSongwriter
    \/ ScanTitle
    \/ ScanTrack
    \/ ScanTrackField
    \/ ScanIgnored
    \/ ParseEnd
    \/ ParseReadError

Spec == Init /\ [][Next]_vars

\* ------------------------------------------------------------------------
\* encodeFlac: the frames written for one track
\* ------------------------------------------------------------------------
\* blockSize := 4096
blockSize == 4096

\* samples per channel of the track: whole blocks plus a remainder
RemainderChoices == {0, 1, 2047, 4095}
NumSamplesChoices ==
    {k * blockSize + r : k \in 0..MaxBlocks, r \in RemainderChoices}

\* a frame size that is never shortened
frameSamplesWholeBlock(offset, numSamples) == blockSize

\* frameSamples for the frame at offset
frameSamples(offset, numSamples) ==
    IF offset + blockSize > numSamples THEN numSamples - offset ELSE blockSize

\* the frame at offset: its header's block size and, for each channel, the
\* verbatim subframe samples[ch][offset : offset+frameSamples], written as
\* the bounds of the slice
Frame(offset, numSamples, numChannels) ==
    LET n == frameSamples(offset, numSamples)
    IN  [BlockSize |-> n,
         Subframes |-> [ch \in 1..numChannels |->
                           [from |-> offset, to |-> offset + n, NSamples |-> n]]]

InitEncode ==
    /\ ParserIdle
    /\ cue = NewCueFile
    /\ sampleRate = 0
    /\ totalSamples = 0
    /\ i = 0
    /\ splitState = "idle"
    /\ ranges = <<>>
    /\ files = <<>>
    /\ tagged = {}
    /\ tags = <<>>
    /\ skipped = {}
    /\ failed = {}
    /\ tagFailed = {}
    /\ ioFaults = 0
    /\ ModesIdle
    /\ firstRun = NoRun
    /\ batch = BatchIdle
    /\ \E channels \in {1, 2}, n \in NumSamplesChoices :
          enc = [EncIdle EXCEPT !.state = "called", !.numChannels = channels,
                                !.numSamples = n]

\* len(samples[0]) == 0: "no samples to encode"
EncodeRefuses ==
    /\ enc.state = "called"
    /\ enc.numSamples = 0
    /\ enc' = [enc EXCEPT !.state = "no samples to encode"]
    /\ UNCHANGED <<cue, parserVars, splitVars, modeVars, firstRun, batch>>

\* os.Create or flac.NewEncoder fails
EncodeCreateFails ==
    /\ enc.state = "called"
    /\ enc.numSamples > 0
    /\ enc' = [enc EXCEPT !.state = "failed to create output file"]
    /\ UNCHANGED <<cue, parserVars, splitVars, modeVars, firstRun, batch>>

\* the output file and the encoder are created
EncodeCreates ==
    /\ enc.state = "called"
    /\ enc.numSamples > 0
    /\ enc' = [enc EXCEPT !.state = "frames"]
    /\ UNCHANGED <<cue, parserVars, splitVars, modeVars, firstRun, batch>>

\* one iteration of the frame loop: enc.WriteFrame succeeds
WriteFrame ==
    /\ enc.state = "frames"
    /\ enc.offset < enc.numSamples
    /\ enc' = [enc EXCEPT
                  !.frames = Append(@, Frame(enc.offset, enc.numSamples,
                                             enc.numChannels)),
                  !.offset = @ + blockSize]
    /\ UNCHANGED <<cue, parserVars, splitVars, modeVars, firstRun, batch>>

\* one iteration of the frame loop: enc.WriteFrame returns an error
WriteFrameFails ==
    /\ enc.state = "frames"
    /\ enc.offset < enc.numSamples
    /\ enc' = [enc EXCEPT !.state = "failed to write frame"]
    /\ UNCHANGED <<cue, parserVars, splitVars, modeVars, firstRun, batch>>

\* the frame loop is over: encodeFlac returns nil
EncodeReturns ==
    /\ enc.state = "frames"
    /\ enc.offset >= enc.numSamples
    /\ enc' = [enc EXCEPT !.state = "returned"]
    /\ UNCHANGED <<cue, parserVars, splitVars, modeVars, firstRun, batch>>

NextEncode ==
    \/ EncodeRefuses
    \/ EncodeCreateFails
    \/ EncodeCreates
    \/ WriteFrame
    \/ WriteFrameFails
    \/ EncodeReturns

SpecEncode == InitEncode /\ [][NextEncode]_vars

\* ------------------------------------------------------------------------
\* Claims about the full in-process strategy
\* ------------------------------------------------------------------------
Min(a, b) == IF a < b THEN a ELSE b

SplitEnded == splitState \in {"returned", "panic"}

\* the track numbers that were handed to sample extraction
HandedTracks == {ranges[k][1] : k \in 1..Len(ranges)}

\* every track carries an index timecode
AllIndexed == \A k \in 1..Len(cue.Tracks) : IsTimecode(cue.Tracks[k].Index)

IsExample ==
    /\ cue = AlbumOf(ExampleIndices)
    /\ sampleRate = ExampleSource.rate
    /\ totalSamples = ExampleSource.total

\* C1: every track that is not skipped as out-of-range is cut at
\* start = to_sample(its index) and end = min(to_sample(next index), total),
\* the last track at end = total; the worked example (00:00:00 and 03:00:00
\* at 44100 Hz, 15876000 samples) resolves to [0, 7938000) and
\* [7938000, 15876000).
C1_RangeOfEachTrack ==
    /\ \A k \in 1..Len(ranges) :
          LET n == ranges[k][1]
          IN  /\ n \notin skipped
              /\ ranges[k][2] = cueTimeToSample(cue.Tracks[n].Index, sampleRate)
              /\ ranges[k][3] =
                    IF n < Len(cue.Tracks)
                    THEN Min(cueTimeToSample(cue.Tracks[n + 1].Index, sampleRate),
                             totalSamples)
                    ELSE totalSamples
    /\ \A n \in 1..i : n \notin skipped => n \in HandedTracks
    /\ (IsExample /\ splitState = "returned") =>
          ranges = << <<1, 0, 7938000>>, <<2, 7938000, 15876000>> >>

C1_Witness ==
    /\ IsExample
    /\ splitState = "returned"
    /\ Len(ranges) = 2

\* C2: in an album whose tracks all carry an index timecode, a track whose
\* start is at or beyond the end of the source gets no file and no tags, and
\* every other track whose start is in range (and whose own range holds
\* samples, the file system not failing) is encoded once the split has
\* ended, wherever the out-of-range track is.
C2_OutOfRangeExcludedOthersEncoded ==
    (SplitEnded /\ ioFaults = 0 /\ AllIndexed) =>
        \A k \in 0..(Len(cue.Tracks) - 1) :
            LET n == cue.Tracks[k + 1].Number
            IN  /\ OutOfRange(k) => (n \notin DOMAIN files /\ n \notin tagged)
                /\ ( /\ ~OutOfRange(k)
                     /\ StartSample(k) < EndSample(k)
                     /\ \E j \in 0..(Len(cue.Tracks) - 1) : OutOfRange(j) )
                   => n \in DOMAIN files

\* C3: in an album whose tracks all carry an index timecode, a
\* non-monotonic pair of indices (the next index at or before the current
\* one) makes only that track fail: it is logged as failed and the split
\* never dies.
C3_NonMonotonicFailsOneTrack ==
    AllIndexed =>
        /\ splitState # "panic"
        /\ \A k \in 1..Len(ranges) :
              ranges[k][2] >= ranges[k][3] => ranges[k][1] \in failed

\* C4: in an album whose tracks all carry an index timecode, every range
\* handed to extraction satisfies start < end <= total, and the last
\* track's end is total.
C4_RangesWellFormed ==
    AllIndexed =>
        \A k \in 1..Len(ranges) :
            /\ ranges[k][2] < ranges[k][3]
            /\ ranges[k][3] <= totalSamples
            /\ ranges[k][1] = Len(cue.Tracks) => ranges[k][3] = totalSamples

\* position of a timecode in 1/75 s
TimecodeFrames(tc) == (tc[1] * 60 + tc[2]) * 75 + tc[3]

\* all indices are timecodes, strictly increasing, and start in range
IncreasingInRange ==
    /\ \A k \in 1..Len(cue.Tracks) : IsTimecode(cue.Tracks[k].Index)
    /\ \A k \in 1..(Len(cue.Tracks) - 1) :
          TimecodeFrames(cue.Tracks[k].Index)
              < TimecodeFrames(cue.Tracks[k + 1].Index)
    /\ \A k \in 0..(Len(cue.Tracks) - 1) : ~OutOfRange(k)

\* each range ends where the next one starts
Contiguous ==
    \A k \in 1..(Len(ranges) - 1) : ranges[k][3] = ranges[k + 1][2]

\* C5 as claimed: with strictly increasing in-range indices the N ranges are
\* contiguous, the first starts at 0 and the last ends at total.
C5_CoverFromZero ==
    (IncreasingInRange /\ splitState = "returned") =>
        /\ Len(ranges) = Len(cue.Tracks)
        /\ Contiguous
        /\ ranges[1][2] = 0
        /\ ranges[Len(ranges)][3] = totalSamples

\* C5 amended: with strictly increasing in-range indices the split never
\* dies, the N ranges are in track order, none inverted, each ends where the
\* next starts, the first starts at to_sample(first index) and the last ends
\* at total.
C5_CoverFromFirstIndex ==
    IncreasingInRange =>
        /\ splitState # "panic"
        /\ Contiguous
        /\ \A k \in 1..Len(ranges) :
              /\ ranges[k][1] = k
              /\ ranges[k][2] <= ranges[k][3]
        /\ Len(ranges) >= 1 =>
              ranges[1][2] = cueTimeToSample(cue.Tracks[1].Index, sampleRate)
        /\ splitState = "returned" =>
              /\ Len(ranges) = Len(cue.Tracks)
              /\ ranges[Len(ranges)][3] = totalSamples

C5_Witness ==
    /\ IncreasingInRange
    /\ splitState = "returned"
    /\ Len(cue.Tracks) >= 2
    /\ Len(ranges) = Len(cue.Tracks)
    /\ ranges[1][2] > 0

\* round((MM*60 + SS + FF/75) * rate)
RoundedSample(tc, rate) ==
    (tc[1] * 60 + tc[2]) * rate + (2 * tc[3] * rate + 75) \div 150

\* C6: for a timecode with FF in 0..74 the start sample used is
\* round((MM*60 + SS + FF/75) * rate).
C6_SampleIsRounded ==
    \A k \in 1..Len(ranges) :
        LET tc == cue.Tracks[ranges[k][1]].Index
        IN  (IsTimecode(tc) /\ tc[3] \in 0..74) =>
                ranges[k][2] = RoundedSample(tc, sampleRate)

ParseEnded == parseState \in {"ok", "error"}

\* positions of the track-start lines read so far
TrackLinePositions == {p \in 1..Len(input) : input[p].kw = "TRACK"}

NumTrackLines == Cardinality(TrackLinePositions)

\* position of the k-th track-start line
TrackLinePosition(k) ==
    CHOOSE p \in TrackLinePositions :
        Cardinality({q \in TrackLinePositions : q <= p}) = k

\* the lines before the first track-start line
Preamble ==
    IF NumTrackLines = 0 THEN input
    ELSE SubSeq(input, 1, TrackLinePosition(1) - 1)

\* the lines of the k-th track: after its track-start line, up to the next
\* track-start line or the end of the input
Segment(k) ==
    SubSeq(input, TrackLinePosition(k) + 1,
           IF k < NumTrackLines THEN TrackLinePosition(k + 1) - 1 ELSE Len(input))

Has(seq, kw) == \E p \in 1..Len(seq) : seq[p].kw = kw

\* the text of the first / last line of a kind, "" if there is none
FirstVal(seq, kw) ==
    IF ~Has(seq, kw) THEN ""
    ELSE seq[CHOOSE p \in 1..Len(seq) :
                /\ seq[p].kw = kw
                /\ \A q \in 1..(p - 1) : seq[q].kw # kw].val

LastVal(seq, kw) ==
    IF ~Has(seq, kw) THEN ""
    ELSE seq[CHOOSE p \in 1..Len(seq) :
                /\ seq[p].kw = kw
                /\ \A q \in (p + 1)..Len(seq) : seq[q].kw # kw].val

\* C7: the track list holds one track per track-start line, in the order of
\* those lines (track k carries the title given in the k-th track's lines),
\* each appended once, when the next track-start line or the end of input
\* closes it, and Tracks[k].Number = k whatever number the sheet writes.
C7_OneTrackPerTrackLine ==
    /\ Len(cue.Tracks) =
          IF ParseEnded \/ NumTrackLines = 0 THEN NumTrackLines
          ELSE NumTrackLines - 1
    /\ \A k \in 1..Len(cue.Tracks) :
          /\ cue.Tracks[k].Number = k
          /\ cue.Tracks[k].Title = LastVal(Segment(k), "TITLE")

C7_Witness ==
    /\ parseState = "ok"
    /\ Len(cue.Tracks) = 2
    /\ cue.Tracks[1].Title # ""
    /\ cue.Tracks[2].Title = ""

\* C8: a track without a PERFORMER line of its own has the performer of the
\* first album PERFORMER line (read before the first track began), a track
\* with its own PERFORMER line keeps that one; the last track like the
\* tracks closed by a later track-start line.
C8_PerformerDefault ==
    \A k \in 1..Len(cue.Tracks) :
        cue.Tracks[k].Performer =
            IF Has(Segment(k), "PERFORMER")
            THEN LastVal(Segment(k), "PERFORMER")
            ELSE FirstVal(Preamble, "PERFORMER")

C8_Witness ==
    /\ parseState = "ok"
    /\ Len(cue.Tracks) = 2
    /\ FirstVal(Preamble, "PERFORMER") # ""
    /\ ~Has(Segment(1), "PERFORMER")
    /\ ~Has(Segment(2), "PERFORMER")
    /\ cue.Tracks[1].Performer = cue.Performer
    /\ cue.Tracks[2].Performer = cue.Performer

\* C9: before the first track-start line a performer, composer, songwriter
\* or title line sets the album field, the performer fixed by the first
\* PERFORMER line and the title by the first TITLE line; after a track-start
\* line such a line sets the field of the open track only and no album field
\* changes.
C9_RoutedByState ==
    /\ cue.Performer = FirstVal(Preamble, "PERFORMER")
    /\ albumPerformer = FirstVal(Preamble, "PERFORMER")
    /\ cue.Album = FirstVal(Preamble, "TITLE")
    /\ cue.Composer = LastVal(Preamble, "COMPOSER")
    /\ cue.Songwriter = LastVal(Preamble, "SONGWRITER")
    /\ (parseState = "scanning" /\ InTrack) =>
          /\ currentTrack[1].Title = LastVal(Segment(NumTrackLines), "TITLE")
          /\ currentTrack[1].Performer = LastVal(Segment(NumTrackLines), "PERFORMER")
          /\ currentTrack[1].Composer = LastVal(Segment(NumTrackLines), "COMPOSER")
          /\ currentTrack[1].Songwriter =
                LastVal(Segment(NumTrackLines), "SONGWRITER")

C9_Witness ==
    /\ parseState = "scanning"
    /\ Len(input) = 3
    /\ input[1].kw = "TITLE"
    /\ input[2].kw = "TRACK"
    /\ input[3].kw = "TITLE"
    /\ input[3].val # input[1].val
    /\ cue.Album = input[1].val
    /\ currentTrack[1].Title = input[3].val

\* C10 as claimed: a track without a COMPOSER line has the album's composer,
\* a track without a SONGWRITER line the album's songwriter.
C10_ComposerDefaults ==
    ParseEnded =>
        \A k \in 1..Len(cue.Tracks) :
            /\ ~Has(Segment(k), "COMPOSER") => cue.Tracks[k].Composer = cue.Composer
            /\ ~Has(Segment(k), "SONGWRITER") =>
                  cue.Tracks[k].Songwriter = cue.Songwriter

\* C10 amended: only the performer is defaulted; a track's composer and
\* songwriter are those of its own last COMPOSER and SONGWRITER lines and
\* stay empty without one, whatever the album's composer and songwriter.
C10_ComposerNotDefaulted ==
    \A k \in 1..Len(cue.Tracks) :
        /\ cue.Tracks[k].Composer = LastVal(Segment(k), "COMPOSER")
        /\ cue.Tracks[k].Songwriter = LastVal(Segment(k), "SONGWRITER")

C10_Witness ==
    /\ parseState = "ok"
    /\ cue.Composer # ""
    /\ cue.Songwriter # ""
    /\ Len(cue.Tracks) = 1
    /\ cue.Tracks[1].Composer = ""
    /\ cue.Tracks[1].Songwriter = ""

\* the first / last line of a kind
FirstLine(seq, kw) ==
    seq[CHOOSE p \in 1..Len(seq) :
            /\ seq[p].kw = kw
            /\ \A q \in 1..(p - 1) : seq[q].kw # kw]

LastLine(seq, kw) ==
    seq[CHOOSE p \in 1..Len(seq) :
            /\ seq[p].kw = kw
            /\ \A q \in (p + 1)..Len(seq) : seq[q].kw # kw]

\* C11: only the first FILE line is honored: AudioFile and AudioFileType
\* are those of the first FILE line read, whatever FILE lines follow.
C11_FirstFileHonored ==
    Has(input, "FILE") =>
        /\ cue.AudioFile = FirstLine(input, "FILE").val
        /\ cue.AudioFileType = FirstLine(input, "FILE").val2

\* C12: a CATALOG line is recognized only outside a track: the album's
\* Catalog is that of the last CATALOG line before the first track-start
\* line, and empty without one.
C12_CatalogOnlyOutsideTrack ==
    cue.Catalog = LastVal(Preamble, "CATALOG")

\* positions of the REM lines read so far whose key, uppercased, is k
RemPositions(k) ==
    {p \in 1..Len(input) :
        input[p].kw = "REM" /\ ToUpper(TrimSpace(input[p].key)) = k}

SetMax(S) == CHOOSE x \in S : \A y \in S : y <= x
SetMin(S) == CHOOSE x \in S : \A y \in S : x <= y

\* the uppercased keys of the REM lines read so far
RemKeys == {ToUpper(TrimSpace(input[p].key)) :
               p \in {q \in 1..Len(input) : input[q].kw = "REM"}}

\* C13: with custom-remark parsing enabled, every REM line whose key is not
\* a known key is in the album's custom-field mapping under the uppercased
\* key with the trimmed value (of the last such line), and no known key is
\* ever a key of the mapping.
C13_CustomRemStored ==
    /\ config.ParseCustomREM =>
          \A k \in RemKeys \ knownFields :
              /\ k \in DOMAIN cue.CustomFields
              /\ cue.CustomFields[k] = TrimSpace(input[SetMax(RemPositions(k))].val)
    /\ DOMAIN cue.CustomFields \cap knownFields = {}

\* positions of the REM DATE / REM YEAR lines read so far
DatePositions ==
    {p \in RemPositions("DATE") : input[p].key = "DATE" /\ input[p].date # NoDate}
YearPositions ==
    {p \in RemPositions("YEAR") : input[p].key = "YEAR" /\ input[p].date # NoDate}

\* C14: Date is the value of the last REM DATE line, or without any that
\* of the first REM YEAR line; Year is the value of the last REM YEAR line
\* or the first four characters of the last REM DATE line, whichever line
\* is later; for any order and number of DATE and YEAR lines.
C14_DateAndYear ==
    /\ cue.Date =
          IF DatePositions # {} THEN input[SetMax(DatePositions)].date
          ELSE IF YearPositions # {} THEN input[SetMin(YearPositions)].date
          ELSE NoDate
    /\ cue.Year =
          IF DatePositions \cup YearPositions = {} THEN NoDate
          ELSE LET p == SetMax(DatePositions \cup YearPositions)
               IN  IF p \in DatePositions THEN <<input[p].date[1]>>
                   ELSE input[p].date

C14_Witness ==
    /\ Len(input) = 3
    /\ input[1] = RemDateLine("YEAR", Date4("1987"))
    /\ input[2] = RemDateLine("DATE", DateFull("1999", "-05-06"))
    /\ input[3] = RemDateLine("YEAR", Date4("1987"))
    /\ cue.Date = DateFull("1999", "-05-06")
    /\ cue.Year = Date4("1987")

\* the sheet was read to its end
ReadToEnd == ParseEnded /\ parseErr.msg # "error reading CUE file"

\* the k-th track's lines give it a title and an index
SegmentComplete(k) == Has(Segment(k), "TITLE") /\ Has(Segment(k), "INDEX01")

\* what validation has to report for the lines read
ExpectedValidation ==
    IF ~Has(input, "FILE") THEN Error("missing FILE directive", 0)
    ELSE IF ~Has(Preamble, "TITLE") THEN Error("missing album TITLE", 0)
    ELSE IF NumTrackLines = 0 THEN Error("no tracks found", 0)
    ELSE IF \A k \in 1..NumTrackLines : SegmentComplete(k) THEN NoError
    ELSE LET k == SetMin({j \in 1..NumTrackLines : ~SegmentComplete(j)})
         IN  IF ~Has(Segment(k), "TITLE") THEN Error("track missing TITLE", k)
             ELSE Error("track missing INDEX 01", k)

\* C15: in strict configuration a sheet read to its end fails with, in this
\* order of precedence, no FILE line, no album title, no track, or the
\* lowest-numbered track without a title or an index (title before index),
\* and succeeds otherwise; in non-strict configuration every sheet read to
\* its end succeeds.
C15_StrictValidation ==
    ReadToEnd =>
        IF config.StrictMode
        THEN /\ parseErr = ExpectedValidation
             /\ parseState = "ok" <=> ExpectedValidation = NoError
        ELSE parseState = "ok" /\ parseErr = NoError

C15_Witness ==
    /\ config.StrictMode
    /\ parseState = "error"
    /\ Len(cue.Tracks) = 2
    /\ cue.Tracks[1].Title # ""
    /\ cue.Tracks[1].Index = NoTimecode
    /\ cue.Tracks[2].Title = ""
    /\ parseErr = Error("track missing INDEX 01", 1)

\* C16 as claimed: whenever parsing succeeds the album has at least one
\* track and a non-empty audio file.
C16_SuccessImpliesComplete ==
    parseState = "ok" => (Len(cue.Tracks) >= 1 /\ cue.AudioFile # "")

\* C16 amended: whenever parsing succeeds in strict configuration the album
\* has at least one track and a non-empty audio file.
C16_StrictSuccessImpliesComplete ==
    (parseState = "ok" /\ config.StrictMode) =>
        (Len(cue.Tracks) >= 1 /\ cue.AudioFile # "")

C16_Witness ==
    /\ parseState = "ok"
    /\ config.StrictMode
    /\ Len(cue.Tracks) = 1
    /\ cue.AudioFile = "a.flac"

\* the tracks parsed so far, the open one included
TracksSoFar ==
    IF parseState = "scanning" /\ InTrack THEN Append(cue.Tracks, currentTrack[1])
    ELSE cue.Tracks

\* C17: the Index of a track, once set, is a timecode whose frames segment
\* is in 0..74; an index line with 75 or more frames never sets it.
C17_IndexFramesInRange ==
    \A k \in 1..Len(TracksSoFar) :
        TracksSoFar[k].Index # NoTimecode =>
            /\ IsTimecode(TracksSoFar[k].Index)
            /\ TracksSoFar[k].Index[3] \in 0..74

\* ------------------------------------------------------------------------
\* Claims about the modes
\* ------------------------------------------------------------------------
NoSplitterErrors ==
    {"neither shnsplit nor ffmpeg found",
     "no external tools available for splitting"}

\* the steps each strategy goes through
StepsOf(m) ==
    IF m = "ModeGoAudioFull" THEN {"open", "loop", "panic"}
    ELSE IF m = "ModeGoAudio"
    THEN {"open", "validate", "ffmpeg", "shnsplit", "shnsplit run", "tagging"}
    ELSE IF m = "ModeExternalTools"
    THEN {"choose", "ffmpeg", "shnsplit", "shnsplit run", "tagging"}
    ELSE {}

\* C18: the mode selects exactly one strategy (full -> SplitWithGoAudio,
\* hybrid -> SplitWithGoAudioSimple, external -> splitWithExternalTools), a
\* no-splitter-available error is returned only in a delegated mode with
\* neither shnsplit nor ffmpeg reachable, and then no output file exists;
\* the full mode never probes for the tools, hands nothing to them and never
\* returns that error.
C18_ModeSelectsStrategy ==
    /\ splitState \in {"dispatch", "returned"} \cup StepsOf(mode)
    /\ strategy # "" =>
          /\ mode = "ModeGoAudioFull" <=> strategy = "SplitWithGoAudio"
          /\ mode = "ModeGoAudio" <=> strategy = "SplitWithGoAudioSimple"
          /\ mode = "ModeExternalTools" <=> strategy = "splitWithExternalTools"
    /\ splitErr \in NoSplitterErrors =>
          /\ mode \in {"ModeGoAudio", "ModeExternalTools"}
          /\ ~tools.shnsplit /\ ~tools.ffmpeg
          /\ DOMAIN files = {}
    /\ mode = "ModeGoAudioFull" =>
          (~probed /\ tool = "" /\ splitErr \notin NoSplitterErrors)

C18_Witness ==
    /\ mode = "ModeGoAudio"
    /\ strategy = "SplitWithGoAudioSimple"
    /\ ~tools.shnsplit /\ ~tools.ffmpeg
    /\ splitState = "returned"
    /\ splitErr = "no external tools available for splitting"
    /\ DOMAIN files = {}

\* a track starts at or past the end of the source
StartsAtOrPastEnd(k) ==
    convertCueTimeToSeconds(cue.Tracks[k + 1].Index) >= TotalDuration

\* C19: in the hybrid strategy a track that starts at or past the end of
\* the source is a per-track, non-fatal outcome: once the source is open
\* the strategy returns only after the hand-off to the external splitter,
\* never with an error for the out-of-range track.
C19_OutOfRangeNotFatalInHybrid ==
    ( /\ strategy = "SplitWithGoAudioSimple"
      /\ splitState = "returned"
      /\ splitErr # "failed to open FLAC file"
      /\ \E k \in 0..(NTracks - 1) : StartsAtOrPastEnd(k) )
    => ( /\ probed
         /\ splitErr # "track starts beyond the audio"
         /\ (tools.shnsplit \/ tools.ffmpeg) => tool # "" )

\* C20: a failure to extract, encode or tag one track never ends the run
\* and never becomes the album's error: the run does not die, no error is
\* returned for one track's range, a return after per-track failures is a
\* return of nil, and after a return of nil from a per-track strategy every
\* track that was not logged as skipped or failed has its file, tagged
\* unless its tagging was logged as failed.
C20_PerTrackFailuresIsolated ==
    /\ splitState # "panic"
    /\ splitErr # "track starts beyond the audio"
    /\ (failed \cup tagFailed # {} /\ splitState = "returned") => splitErr = ""
    /\ (splitState = "returned" /\ splitErr = "" /\ strategy # "") =>
          \A k \in 1..NTracks :
              LET n == cue.Tracks[k].Number
              IN  /\ n \notin skipped \cup failed => n \in DOMAIN files
                  /\ (n \in DOMAIN files /\ n \notin tagFailed) => n \in tagged

\* ------------------------------------------------------------------------
\* Claims about the tags
\* ------------------------------------------------------------------------
\* the values a tag block holds for a key, in order
Values(comments, key) ==
    LET held == SelectSeq(comments, LAMBDA c : c[1] = key)
    IN  [p \in 1..Len(held) |-> held[p][2]]

\* the values a block has to hold for a field that is written when set
IfSet(value, empty) == IF value = empty THEN <<>> ELSE <<value>>

TrackNumbered(n) == cue.Tracks[CHOOSE k \in 1..NTracks : cue.Tracks[k].Number = n]

\* C21: the tag block written for a track holds exactly one TITLE (track
\* title), ARTIST (track performer), ALBUM (album title), PERFORMER (album
\* performer), TRACKNUMBER (track number) and TOTALTRACKS (track count),
\* and one DATE, GENRE, DESCRIPTION (album comment), CATALOG and DISCID
\* exactly when that album field is not empty.
C21_StandardTags ==
    \A n \in tagged :
        /\ Values(tags[n], "TITLE") = <<TrackNumbered(n).Title>>
        /\ Values(tags[n], "ARTIST") = <<TrackNumbered(n).Performer>>
        /\ Values(tags[n], "ALBUM") = <<cue.Album>>
        /\ Values(tags[n], "PERFORMER") = <<cue.Performer>>
        /\ Values(tags[n], "TRACKNUMBER") = <<Itoa(n)>>
        /\ Values(tags[n], "TOTALTRACKS") = <<Itoa(NTracks)>>
        /\ Values(tags[n], "DATE") = IfSet(cue.Date, NoDate)
        /\ Values(tags[n], "GENRE") = IfSet(cue.Genre, "")
        /\ Values(tags[n], "DESCRIPTION") = IfSet(cue.Comment, "")
        /\ Values(tags[n], "CATALOG") = IfSet(cue.Catalog, "")
        /\ Values(tags[n], "DISCID") = IfSet(cue.DiscID, "")

C21_Witness ==
    /\ splitState = "returned"
    /\ tagged = {1, 2}
    /\ cue.Date # NoDate
    /\ cue.Genre = ""
    /\ cue.Comment # ""
    /\ cue.Catalog = ""
    /\ cue.DiscID # ""
    /\ cue.Tracks[2].Title = ""
    /\ Len(tags[2]) = 9

\* C22: the tag block written for a track holds every custom field: each
\* key of the track's mapping with the track's value, and each key of the
\* album's mapping that the track does not define with the album's value.
C22_CustomFieldsTagged ==
    \A n \in tagged :
        /\ \A k \in DOMAIN TrackNumbered(n).CustomFields :
              Values(tags[n], k) = <<TrackNumbered(n).CustomFields[k]>>
        /\ \A k \in DOMAIN cue.CustomFields \ DOMAIN TrackNumbered(n).CustomFields :
              Values(tags[n], k) = <<cue.CustomFields[k]>>

\* no key occurs twice in a tag block
NoDuplicateKey(comments) ==
    \A p, q \in 1..Len(comments) : comments[p][1] = comments[q][1] => p = q

\* C23: when a split that met no input/output failure is run again on the
\* same sheet and source into the same directory, again without such a
\* failure, then after the second run the output files, their contents and
\* their tag blocks are those the first run left, and no tag block holds a
\* key twice.
C23_RerunIdempotent ==
    (firstRun.ran /\ SplitEnded /\ ioFaults = 0) =>
        /\ files = firstRun.files
        /\ tags = firstRun.tags
        /\ \A n \in DOMAIN tags : NoDuplicateKey(tags[n])

\* a second run in which the files of the first were tagged again
C23_Witness ==
    /\ firstRun.ran
    /\ splitState = "returned"
    /\ ioFaults = 0
    /\ splitErr = ""
    /\ tool = "shnsplit"
    /\ NTracks = 2
    /\ tagged = {1, 2}
    /\ firstRun.tags = tags
    /\ Len(tags[1]) = 6

\* ------------------------------------------------------------------------
\* Claims about the batch
\* ------------------------------------------------------------------------
\* the process is over: the summary was printed, or a panic killed it
BatchEnded == batch.state = "summary" \/ splitState = "panic"

\* C24: a batch run is not ended by one album's failure: when the process
\* is over every CUE file found has been handled and counted exactly once,
\* successCount + failureCount + skippedCount = number of CUE files.
C24_BatchCountsEveryAlbum ==
    (batch.state # "idle" /\ BatchEnded) =>
        /\ batch.index = Len(batch.albums)
        /\ batch.successCount + batch.failureCount + batch.skippedCount
               = Len(batch.albums)

\* ------------------------------------------------------------------------
\* Claims about the external tools
\* ------------------------------------------------------------------------
Delegated == mode \in {"ModeExternalTools", "ModeGoAudio"}

\* C25: in the external and the hybrid mode, once a tool has been chosen:
\* with shnsplit and ffmpeg both available ffmpeg is the tool exactly when
\* UseFFmpeg is set, and with only one of them available that one is the
\* tool.
C25_FFmpegPreference ==
    (Delegated /\ tool # "") =>
        /\ (tools.shnsplit /\ tools.ffmpeg) =>
              tool = (IF useFFmpeg THEN "ffmpeg" ELSE "shnsplit")
        /\ (tools.shnsplit /\ ~tools.ffmpeg) => tool = "shnsplit"
        /\ (tools.ffmpeg /\ ~tools.shnsplit) => tool = "ffmpeg"

\* C28: after splitWithShnsplit has returned, whether copying the sheet
\* failed, shnsplit failed or the split succeeded, no temp.cue is left in
\* the output directory.
C28_TempCueRemoved ==
    (tool = "shnsplit" /\ splitState = "returned") => ~tempCue

\* ------------------------------------------------------------------------
\* Claims about the encoder
\* ------------------------------------------------------------------------
RECURSIVE SumBlockSizes(_)
SumBlockSizes(frames) ==
    IF frames = <<>> THEN 0
    ELSE frames[1].BlockSize + SumBlockSizes(Tail(frames))

\* the subframes of a channel, in write order, are the slices of the
\* track's samples one after the other from 0 to n
CoversChannel(frames, ch, n) ==
    /\ frames[1].Subframes[ch].from = 0
    /\ \A p \in 1..Len(frames) - 1 :
          frames[p + 1].Subframes[ch].from = frames[p].Subframes[ch].to
    /\ \A p \in 1..Len(frames) :
          /\ frames[p].Subframes[ch].from < frames[p].Subframes[ch].to
          /\ frames[p].Subframes[ch].to - frames[p].Subframes[ch].from
                = frames[p].BlockSize
    /\ frames[Len(frames)].Subframes[ch].to = n

\* C27: when encodeFlac returns nil for a track of n > 0 samples per
\* channel, it has written frames of block size 4096, except that the last
\* one holds n mod 4096 samples when that is not zero; the block sizes sum
\* to n, and for every channel the frames' samples in write order are the
\* track's samples, none dropped, repeated or out of place.
C27_FramesCoverTrack ==
    enc.state = "returned" =>
        LET n == enc.numSamples
            frames == enc.frames
            last == Len(frames)
        IN  /\ n > 0
            /\ last = (n + 4095) \div 4096
            /\ \A p \in 1..last - 1 : frames[p].BlockSize = 4096
            /\ frames[last].BlockSize
                  = (IF n % 4096 # 0 THEN n % 4096 ELSE 4096)
            /\ SumBlockSizes(frames) = n
            /\ \A p \in 1..last :
                  DOMAIN frames[p].Subframes = 1..enc.numChannels
            /\ \A ch \in 1..enc.numChannels : CoversChannel(frames, ch, n)

\* a stereo track of two whole blocks and one sample
C27_Witness ==
    /\ enc.state = "returned"
    /\ enc.numChannels = 2
    /\ enc.numSamples = 8193
    /\ Len(enc.frames) = 3
    /\ enc.frames[3].BlockSize = 1

====
